---- MODULE Spec2Model ----
(***************************************************************************)
(* Model of autoclick_pro.core.engine.Engine: the caller thread's control  *)
(* methods (start, pause, resume, stop, estop, set_simulation), the worker *)
(* thread's _run loop and the per-type handlers of _execute.               *)
(*                                                                         *)
(* Indices are 0-based as in the Python source; a timeline is a TLA+       *)
(* sequence, so the action at index i is tl[i + 1].  Python's None is the  *)
(* empty sequence <<>> and a present value v is <<v>>.                     *)
(***************************************************************************)
EXTENDS Integers, Sequences, FiniteSets, TLC

\* ------------------------------------------------------------------ bounds
\* runs (worker threads) started in one behaviour
MaxStarts == 2
\* largest max_iters of the loop_until timelines
MaxLoopIters == 3
\* handler iterations recorded per run (history bound)
MaxTrace == 3 * (MaxLoopIters + 1) + 2

\* ------------------------------------------------------- python primitives
None == <<>>
Some(v) == <<v>>
IsNone(o) == o = <<>>
Val(o) == o[1]

\* dict.get(key, default)
Get(d, k, default) == IF k \in DOMAIN d THEN d[k] ELSE default

Max2(a, b) == IF a >= b THEN a ELSE b

SetMax(S) == CHOOSE m \in S : \A x \in S : x <= m

\* ----------------------------------------------------------- action dicts
\* The keys an action dict may carry; absent keys are absent from the record.
Act(id, type) == [id |-> id, type |-> type]
With(a, k, v) == (k :> v) @@ a

ActId(a) == Get(a, "id", "")
ActType(a) == Get(a, "type", "")
ActTarget(a) == Get(a, "target", "")
ActParams(a) == Get(a, "params", <<>>)
DelayBefore(a) == Get(a, "delay_before_ms", 0)
DelayAfter(a) == Get(a, "delay_after_ms", 0)
RepeatCount(a) == Get(a, "repeat_count", 1)

\* params.get("max_iters", 100)
DefaultMaxIters == 100

\* ---------------------------------------------------------------- timelines
\* no detect / conditional_jump / loop_until
TLinear ==
    << With(With(With(Act("a1", "wait"), "params", [ms |-> 0]),
                 "delay_before_ms", 5), "delay_after_ms", 5),
       With(With(Act("a2", "mouse_click"), "params", [x |-> 1, y |-> 2]),
            "repeat_count", 2),
       With(Act("a3", "key_sequence"), "params", [sequence |-> <<"hi">>]),
       With(Act("a4", "label"), "target", "L") >>

\* a short timeline whose second action has repeat_count 0 (clamped to 1)
\* and whose third action is of no known type
TShort ==
    << Act("b1", "label"),
       With(With(Act("b2", "wait"), "params", [ms |-> 0]), "repeat_count", 0),
       Act("b3", "scroll") >>

\* time.sleep() of a negative length raises ValueError
TRaise ==
    << With(Act("r1", "key_sequence"), "params",
            [sequence |-> <<"x">>, text_mode |-> FALSE]),
       With(Act("r2", "wait"), "params", [ms |-> 0 - 1]),
       With(Act("r3", "key_sequence"), "params", [sequence |-> <<"y">>]) >>

\* [label start, detect, conditional_jump{true: done, false: start}, label done]
TScenario ==
    << With(Act("lbl1", "label"), "target", "start"),
       With(With(Act("d1", "detect"), "target", "tmpl.png"),
            "params", [conf |-> 90]),
       With(Act("cj1", "conditional_jump"), "params",
            [test |-> "last_detect", true_target |-> "done",
             false_target |-> "start"]),
       With(Act("lbl2", "label"), "target", "done") >>

\* conditional_jump before any detect, forward jumps by action id
TJump ==
    << With(Act("j1", "conditional_jump"), "params",
            [test |-> "last_detect", true_target |-> "j4",
             false_target |-> "j2"]),
       With(With(Act("j2", "detect"), "target", "tmpl.png"),
            "params", [method |-> "feature"]),
       With(With(Act("j3", "conditional_jump"), "params",
                 [true_target |-> "j5", false_target |-> "j4"]),
            "repeat_count", 2),
       With(Act("j4", "mouse_click"), "params", [x |-> 0, y |-> 0]),
       With(Act("j5", "label"), "target", "end") >>

\* [label top, detect, loop_until{label: top, max_iters: n}, wait]
TLoop(n) ==
    << With(Act("l1", "label"), "target", "top"),
       With(Act("l2", "detect"), "target", "tmpl.png"),
       With(Act("l3", "loop_until"), "params",
            [label |-> "top", until |-> [test |-> "last_detect", value |-> TRUE],
             max_iters |-> n]),
       With(Act("l4", "wait"), "params", [ms |-> 0]) >>

\* a conditional_jump whose two targets are the key k
JumpTo(id, k) ==
    With(Act(id, "conditional_jump"), "params",
         [test |-> "last_detect", true_target |-> k, false_target |-> k])

\* keys registered more than once: "X" names the label at index 1 and is the
\* id of the action at index 2; "d" is the id of the actions at 3 and 4;
\* "L" names the labels at 5 and 6
TDup ==
    << JumpTo("c0", "X"),
       With(Act("p", "label"), "target", "X"),
       JumpTo("X", "d"),
       With(Act("d", "wait"), "params", [ms |-> 0]),
       JumpTo("d", "L"),
       With(Act("q", "label"), "target", "L"),
       With(Act("r", "label"), "target", "L") >>

\* jumps that resolve to nothing: a conditional_jump to an unknown key, one
\* without targets (run twice), a loop_until to an unknown label, one
\* without label; then an action of no known type
TFall ==
    << JumpTo("f0", "nowhere"),
       With(Act("f1", "conditional_jump"), "repeat_count", 2),
       With(Act("f2", "loop_until"), "params",
            [label |-> "missing", max_iters |-> 1]),
       With(Act("f3", "loop_until"), "params", [max_iters |-> 1]),
       Act("f4", "scroll"),
       With(Act("f5", "wait"), "params", [ms |-> 0]) >>

Timelines ==
    {TLinear, TShort, TRaise, TScenario, TJump, TDup, TFall} \cup
    {TLoop(n) : n \in 0 .. MaxLoopIters}

\* ------------------------------------------------- id / label index map
\* faulty variant: a label registered under its id only
LabelNameIdOnly(a) == ActId(a)

\* lname = str(a.get("target") or aid)
LabelName(a) == IF ActTarget(a) # "" THEN ActTarget(a) ELSE ActId(a)

\* the last action registering a key wins
IdToIndex(tl) ==
    [k \in {ActId(tl[j]) : j \in 1 .. Len(tl)} \ {""} |->
        SetMax({j - 1 : j \in {n \in 1 .. Len(tl) : ActId(tl[n]) = k}})]

LabelToIndex(tl) ==
    LET lab == {j \in 1 .. Len(tl) : ActType(tl[j]) = "label"} IN
    [k \in {LabelName(tl[j]) : j \in lab} \ {""} |->
        SetMax({j - 1 : j \in {n \in lab : LabelName(tl[n]) = k}})]

\* faulty variant: label_to_index | id_to_index
IndexMapIdWins(tl) == IdToIndex(tl) @@ LabelToIndex(tl)

\* id_to_index | label_to_index : the right operand wins on a shared key
IndexMap(tl) == LabelToIndex(tl) @@ IdToIndex(tl)

\* ---------------------------------------------------------- RunContext
\* self._context = {"last_detect": None}
FreshContext == [last_detect |-> None]

\* bool(v) of a context value: None is falsy, a result dict is truthy
Truthy(o) == ~IsNone(o)

\* test.startswith("var:") and name = test.split(":", 1)[1]
VarTests == {"var:last_detect", "var:flag"}
VarName(test) == IF test = "var:last_detect" THEN "last_detect" ELSE "flag"

\* ------------------------------------------------ conditional_jump handler
CondJumpCond(params, ctx) ==
    LET test == Get(params, "test", "last_detect") IN
    IF test = "last_detect"
    THEN LET ld == Get(ctx, "last_detect", None) IN
         Truthy(ld) /\ Val(ld).found
    ELSE IF test \in VarTests
    THEN Truthy(Get(ctx, VarName(test), None))
    ELSE FALSE

\* faulty variant: true_target and false_target exchanged
CondJumpNextSwapped(a, ctx, map) ==
    LET params == ActParams(a)
        cond == CondJumpCond(params, ctx)
        target_id == IF cond THEN Get(params, "false_target", "")
                     ELSE Get(params, "true_target", "")
    IN  IF target_id # "" /\ DOMAIN map # {} /\ target_id \in DOMAIN map
        THEN Some(map[target_id])
        ELSE None

\* faulty variant: id_to_index.get(target_id, 0)
CondJumpNextDefaultsToZero(a, ctx, map) ==
    LET params == ActParams(a)
        cond == CondJumpCond(params, ctx)
        target_id == IF cond THEN Get(params, "true_target", "")
                     ELSE Get(params, "false_target", "")
    IN  IF target_id # "" /\ DOMAIN map # {} /\ target_id \in DOMAIN map
        THEN Some(map[target_id])
        ELSE Some(0)

\* the index to return, or None to fall through
CondJumpNext(a, ctx, map) ==
    LET params == ActParams(a)
        cond == CondJumpCond(params, ctx)
        target_id == IF cond THEN Get(params, "true_target", "")
                     ELSE Get(params, "false_target", "")
    IN  IF target_id # "" /\ DOMAIN map # {} /\ target_id \in DOMAIN map
        THEN Some(map[target_id])
        ELSE None

\* ------------------------------------------------------ loop_until handler
DefaultUntil == [test |-> "last_detect", value |-> TRUE]

LoopUntilCond(params, ctx) ==
    LET until == Get(params, "until", DefaultUntil)
        test == Get(until, "test", "last_detect")
        value == Get(until, "value", TRUE)
    IN  IF test = "last_detect"
        THEN LET ld == Get(ctx, "last_detect", None) IN
             Truthy(ld) /\ (Val(ld).found = value)
        ELSE IF test \in VarTests
        THEN Truthy(Get(ctx, VarName(test), None)) = value
        ELSE FALSE

\* faulty variant: count > max_iters in place of count >= max_iters
LoopUntilStepOffByOne(a, ctx, loops, idx, map) ==
    LET params == ActParams(a)
        label == Get(params, "label", "")
        max_iters == Get(params, "max_iters", DefaultMaxIters)
        count == Get(loops, idx, 0)
    IN  IF LoopUntilCond(params, ctx)
        THEN [next |-> None, loops |-> loops]
        ELSE IF count > max_iters
        THEN [next |-> None, loops |-> loops]
        ELSE LET bumped == (idx :> (count + 1)) @@ loops IN
             IF label # "" /\ DOMAIN map # {} /\ label \in DOMAIN map
             THEN [next |-> Some(map[label]), loops |-> bumped]
             ELSE [next |-> None, loops |-> bumped]

\* faulty variant: max_iters is not looked at
LoopUntilStepUnbounded(a, ctx, loops, idx, map) ==
    LET params == ActParams(a)
        label == Get(params, "label", "")
        count == Get(loops, idx, 0)
    IN  IF LoopUntilCond(params, ctx)
        THEN [next |-> None, loops |-> loops]
        ELSE LET bumped == (idx :> (count + 1)) @@ loops IN
             IF label # "" /\ DOMAIN map # {} /\ label \in DOMAIN map
             THEN [next |-> Some(map[label]), loops |-> bumped]
             ELSE [next |-> None, loops |-> bumped]

\* faulty variant: the counter starts again once max_iters is reached
LoopUntilStepResets(a, ctx, loops, idx, map) ==
    LET params == ActParams(a)
        label == Get(params, "label", "")
        max_iters == Get(params, "max_iters", DefaultMaxIters)
        count == Get(loops, idx, 0)
    IN  IF LoopUntilCond(params, ctx)
        THEN [next |-> None, loops |-> loops]
        ELSE IF count >= max_iters
        THEN [next |-> None, loops |-> (idx :> 0) @@ loops]
        ELSE LET bumped == (idx :> (count + 1)) @@ loops IN
             IF label # "" /\ DOMAIN map # {} /\ label \in DOMAIN map
             THEN [next |-> Some(map[label]), loops |-> bumped]
             ELSE [next |-> None, loops |-> bumped]

\* [next |-> index to return or None, loops |-> the counters afterwards]
LoopUntilStep(a, ctx, loops, idx, map) ==
    LET params == ActParams(a)
        label == Get(params, "label", "")
        max_iters == Get(params, "max_iters", DefaultMaxIters)
        count == Get(loops, idx, 0)
    IN  IF LoopUntilCond(params, ctx)
        THEN [next |-> None, loops |-> loops]
        ELSE IF count >= max_iters
        THEN [next |-> None, loops |-> loops]
        ELSE LET bumped == (idx :> (count + 1)) @@ loops IN
             IF label # "" /\ DOMAIN map # {} /\ label \in DOMAIN map
             THEN [next |-> Some(map[label]), loops |-> bumped]
             ELSE [next |-> None, loops |-> bumped]

\* faulty variant: the fall-through skips an index
AdvanceSkips(i, next_idx) == IF IsNone(next_idx) THEN i + 2 ELSE Val(next_idx)

\* i = next_idx if isinstance(next_idx, int) else i + 1
Advance(i, next_idx) == IF IsNone(next_idx) THEN i + 1 ELSE Val(next_idx)

\* -------------------------------------------------------------- state
VARIABLES
    worker,      \* self._worker: 0 for None, else the id of the last thread
    stopEv,      \* self._stop
    pauseEv,     \* self._pause
    simulation,  \* self._simulation
    context,     \* self._context
    statusBar,   \* the status subscriber: the message it shows
    callerPc,    \* the message the caller thread is about to emit, or "none"
    callerActs,  \* the caller's list of action dicts (without result)
    result,      \* the result key of each action dict of the list passed
                 \* to the last accepted start()
    nThreads,    \* worker threads created so far
    wpc,         \* per thread: position in _run / _execute
    wi,          \* per thread: i of _run
    wk,          \* per thread: iterations of the repeat loop done
    wloops,      \* per thread: loop_iters of _run
    wacts,       \* per thread: the list(actions) snapshot
    \* history
    visited,     \* per thread: the indices passed to _execute
    trace,       \* per thread: the index of every handler iteration executed
    dets,        \* per thread: found of every detection stored
    errIndex,    \* per thread: index logged by engine_action_error (kept
                 \* after the thread's death until the next run begins)
    stopMark,    \* per thread: see MarkStop
    calls,       \* the collaborators called by the last handler iteration
    \* the detection functions, each applied on its own (None in the engine)
    nms,         \* non_max_suppression: its input and result
    fm,          \* feature_match: its input and result
    tm,          \* match_template: its input and result
    det,         \* the detect handler: its action, what cv2 finds, its result
    pendRun      \* the thread running when the caller set the stop flag
                 \* whose message it is about to emit, else 0

engineVars == <<worker, stopEv, pauseEv, simulation, context>>
callerVars == <<callerPc, callerActs, pendRun>>
threadVars == <<nThreads, wpc, wi, wk, wloops, wacts>>
histVars == <<visited, trace, dets, errIndex, stopMark>>
pureVars == <<nms, fm, tm, det>>
engineAll ==
    <<engineVars, statusBar, callerVars, result, threadVars, histVars, calls>>
vars ==
    <<engineVars, statusBar, callerVars, result, threadVars, histVars, calls,
      pureVars>>

Threads == 1 .. MaxStarts

\* threading.Thread.is_alive(): started and run() not yet returned
Alive(w) == wpc[w] \notin {"unborn", "dead"}

\* thread w is in _run and has not emitted its Idle yet
Running(w) == wpc[w] \notin {"unborn", "exiting", "dead"}

EngineInit ==
    /\ worker = 0
    /\ stopEv = FALSE
    /\ pauseEv = FALSE
    /\ simulation = TRUE
    /\ context = FreshContext
    /\ statusBar = "Ready"
    /\ callerPc = "none"
    /\ callerActs = <<>>
    /\ result = <<>>
    /\ nThreads = 0
    /\ wpc = [w \in Threads |-> "unborn"]
    /\ wi = [w \in Threads |-> 0]
    /\ wk = [w \in Threads |-> 0]
    /\ wloops = [w \in Threads |-> <<>>]
    /\ wacts = [w \in Threads |-> <<>>]
    /\ visited = [w \in Threads |-> <<>>]
    /\ trace = [w \in Threads |-> <<>>]
    /\ dets = [w \in Threads |-> <<>>]
    /\ errIndex = [w \in Threads |-> None]
    /\ stopMark = [w \in Threads |-> None]
    /\ pendRun = 0
    /\ calls = {}

Init ==
    /\ EngineInit
    /\ nms = None
    /\ fm = None
    /\ tm = None
    /\ det = None

\* ------------------------------------------------------- caller thread
\* faulty variant: start() without the is_alive() check
WorkerNeverAlive == FALSE

\* if self._worker and self._worker.is_alive()
WorkerAlive == worker # 0 /\ Alive(worker)

\* the caller passes the list it passed before (same dicts) or a new list
StartArgs(tl, reuse) == reuse => tl = callerActs

\* faulty variant: start() without self._stop.clear()
StartStopKept == stopEv

\* faulty variant: start() keeps the context of the run before
StartContextKept == context

\* the values start() gives the flags and the context
StartStop == FALSE
StartPause == FALSE
StartContext == FreshContext

Start(tl, reuse) ==
    /\ callerPc = "none"
    /\ StartArgs(tl, reuse)
    /\ IF WorkerAlive
       THEN \* self._log.warning("engine_already_running"); return
            /\ callerPc' = "engine_already_running"
            /\ UNCHANGED <<engineVars, statusBar, callerActs, pendRun, result,
                           threadVars, histVars, calls, pureVars>>
       ELSE LET w == nThreads + 1 IN
            /\ nThreads < MaxStarts
            /\ stopEv' = StartStop
            /\ pauseEv' = StartPause
            /\ context' = StartContext
            /\ worker' = w
            /\ nThreads' = w
            /\ callerActs' = tl
            /\ result' = IF reuse THEN result ELSE [j \in 1 .. Len(tl) |-> None]
            /\ wpc' = [wpc EXCEPT ![w] = "emit_running"]
            /\ wacts' = [wacts EXCEPT ![w] = tl]
            /\ UNCHANGED <<simulation, statusBar, callerPc, pendRun, wi, wk,
                           wloops, histVars, calls, pureVars>>

\* start() returns after the warning
StartReturn ==
    /\ callerPc = "engine_already_running"
    /\ callerPc' = "none"
    /\ UNCHANGED <<engineVars, statusBar, callerActs, pendRun, result,
                   threadVars, histVars, calls, pureVars>>

\* the thread whose run a flag set now belongs to
ActiveRun == IF worker # 0 /\ Running(worker) THEN worker ELSE 0

SetFlagAndEmit(msg) ==
    /\ callerPc = "none"
    /\ callerPc' = msg
    /\ pendRun' = IF msg \in {"Stopped", "EMERGENCY STOP"} THEN ActiveRun ELSE 0
    /\ UNCHANGED <<worker, simulation, context, statusBar, callerActs, result,
                   threadVars, visited, trace, dets, errIndex, calls,
                   pureVars>>

Pause ==
    /\ SetFlagAndEmit("Paused")
    /\ pauseEv' = TRUE
    /\ UNCHANGED <<stopEv, stopMark>>

Resume ==
    /\ SetFlagAndEmit("Resumed")
    /\ pauseEv' = FALSE
    /\ UNCHANGED <<stopEv, stopMark>>

\* history: when the stop flag is first set in a run, how many handler
\* iterations and dispatches the run may have made once it has halted: those
\* made so far, plus the one in flight (past its stop check)
MarkStop ==
    [w \in Threads |->
        IF Running(w) /\ ~stopEv /\ IsNone(stopMark[w])
        THEN Some([bodies |-> Len(trace[w]) +
                                IF wpc[w] = "iter_body" THEN 1 ELSE 0,
                   visits |-> Len(visited[w]) +
                                IF wpc[w] = "pause_wait" THEN 1 ELSE 0])
        ELSE stopMark[w]]

Stop ==
    /\ SetFlagAndEmit("Stopped")
    /\ stopEv' = TRUE
    /\ stopMark' = MarkStop
    /\ UNCHANGED pauseEv

EStop ==
    /\ SetFlagAndEmit("EMERGENCY STOP")
    /\ stopEv' = TRUE
    /\ stopMark' = MarkStop
    /\ UNCHANGED pauseEv

\* self._emit(msg) of pause / resume / stop / estop
StatusMessages == {"Paused", "Resumed", "Stopped", "EMERGENCY STOP"}

CallerEmit ==
    /\ callerPc \in StatusMessages
    /\ statusBar' = callerPc
    /\ callerPc' = "none"
    /\ pendRun' = 0
    /\ UNCHANGED <<engineVars, callerActs, result, threadVars, histVars,
                   calls, pureVars>>

SetSimulation(enabled) ==
    /\ callerPc = "none"
    /\ simulation' = enabled
    /\ UNCHANGED <<worker, stopEv, pauseEv, context, statusBar, callerVars,
                   result, threadVars, histVars, calls, pureVars>>

\* ------------------------------------------------------- worker thread
\* what no step of a worker thread changes
WFrame ==
    UNCHANGED <<worker, stopEv, pauseEv, simulation, callerVars, nThreads,
                wacts, stopMark, pureVars>>

CurAct(w) == wacts[w][wi[w] + 1]

\* _run: self._emit("Running"), the index maps, i = 0, loop_iters = {}
WRunBegin(w) ==
    /\ wpc[w] = "emit_running"
    /\ statusBar' = "Running"
    /\ wi' = [wi EXCEPT ![w] = 0]
    /\ wloops' = [wloops EXCEPT ![w] = <<>>]
    /\ wpc' = [wpc EXCEPT ![w] = "loop_top"]
    \* history: the error of the run before is forgotten
    /\ errIndex' = [v \in Threads |-> None]
    /\ WFrame
    /\ UNCHANGED <<context, result, wk, visited, trace, dets, calls>>

\* if self._stop.is_set(): break   (top of the while loop of _run)
RunStopCheck == stopEv

\* while i < len(actions): if stop: break
WLoopTop(w) ==
    /\ wpc[w] = "loop_top"
    /\ wpc' = [wpc EXCEPT ![w] =
                 IF wi[w] < Len(wacts[w]) /\ ~RunStopCheck
                 THEN "pause_wait" ELSE "emit_idle"]
    /\ WFrame
    /\ UNCHANGED <<context, statusBar, result, wi, wk, wloops, histVars,
                   calls>>

\* faulty variant: the pause flag is not looked at
PauseHoldsNever == FALSE

\* faulty variant: the pause loop does not look at the stop flag
PauseHoldsWhenStopped == pauseEv

\* while self._pause.is_set() and not self._stop.is_set()
PauseHolds == pauseEv /\ ~stopEv

\* the index _run dispatches when it leaves the pause loop
DispatchIndex(w) == wi[w]

\* faulty variant: the except clause logs and goes round the loop again
RaiseRetries(w) ==
    /\ errIndex' = [errIndex EXCEPT ![w] = Some(wi[w])]
    /\ wpc' = [wpc EXCEPT ![w] = "loop_top"]

\* except Exception: log engine_action_error with the index, break
Raise(w) ==
    /\ errIndex' = [errIndex EXCEPT ![w] = Some(wi[w])]
    /\ wpc' = [wpc EXCEPT ![w] = "emit_idle"]

\* time.sleep(ms / 1000.0) raises ValueError for a negative length
SleepRaises(ms) == ms < 0

\* faulty variant: every sleep of the pause loop also advances the index
WPauseWaitSkips(w) ==
    /\ wpc[w] = "pause_wait"
    /\ IF PauseHolds
       THEN /\ wi' = [wi EXCEPT ![w] =
                       IF @ + 1 < Len(wacts[w]) THEN @ + 1 ELSE @]
            /\ UNCHANGED <<wpc, wk, visited, errIndex>>
       ELSE /\ visited' = [visited EXCEPT ![w] = Append(@, DispatchIndex(w))]
            /\ wi' = [wi EXCEPT ![w] = DispatchIndex(w)]
            /\ wk' = [wk EXCEPT ![w] = 0]
            /\ wpc' = [wpc EXCEPT ![w] = "iter_check"]
            /\ UNCHANGED errIndex
    /\ WFrame
    /\ UNCHANGED <<context, statusBar, result, wloops, trace, dets, calls>>

\* the pause loop; then action = actions[i], the call of _execute and
\* if delay_before: time.sleep(delay_before / 1000.0)
WPauseWait(w) ==
    /\ wpc[w] = "pause_wait"
    /\ IF PauseHolds
       THEN \* time.sleep(0.05)
            UNCHANGED <<wpc, wi, wk, visited, errIndex>>
       ELSE /\ visited' = [visited EXCEPT ![w] = Append(@, DispatchIndex(w))]
            /\ wi' = [wi EXCEPT ![w] = DispatchIndex(w)]
            /\ IF SleepRaises(DelayBefore(wacts[w][DispatchIndex(w) + 1]))
               THEN /\ errIndex' = [errIndex EXCEPT ![w] = Some(DispatchIndex(w))]
                    /\ wpc' = [wpc EXCEPT ![w] = "emit_idle"]
                    /\ UNCHANGED wk
               ELSE /\ wk' = [wk EXCEPT ![w] = 0]
                    /\ wpc' = [wpc EXCEPT ![w] = "iter_check"]
                    /\ UNCHANGED errIndex
    /\ WFrame
    /\ UNCHANGED <<context, statusBar, result, wloops, trace, dets, calls>>

\* range(max(1, repeat))
Repeats(a) == Max2(1, RepeatCount(a))

\* faulty variant: the repeat loop without its stop check
IterStopCheckMissing == FALSE

\* if self._stop.is_set(): break   (top of the repeat loop of _execute)
IterStopCheck == stopEv

\* for _ in range(max(1, repeat)): if stop: break; and after the loop
\* if delay_after: time.sleep(delay_after / 1000.0), return None, i += 1
WIterCheck(w) ==
    /\ wpc[w] = "iter_check"
    /\ IF wk[w] < Repeats(CurAct(w)) /\ ~IterStopCheck
       THEN /\ wpc' = [wpc EXCEPT ![w] = "iter_body"]
            /\ UNCHANGED <<wi, errIndex>>
       ELSE IF SleepRaises(DelayAfter(CurAct(w)))
       THEN Raise(w) /\ UNCHANGED wi
       ELSE /\ wi' = [wi EXCEPT ![w] = Advance(@, None)]
            /\ wpc' = [wpc EXCEPT ![w] = "loop_top"]
            /\ UNCHANGED errIndex
    /\ WFrame
    /\ UNCHANGED <<context, statusBar, result, wk, wloops, visited, trace,
                   dets, calls>>

\* a handler iteration of thread w is about to run the handler of type t
AtBody(w, t) ==
    /\ wpc[w] = "iter_body"
    /\ Len(trace[w]) < MaxTrace
    /\ ActType(CurAct(w)) = t
    /\ trace' = [trace EXCEPT ![w] = Append(@, wi[w])]

\* the handler falls out of its branch: the repeat loop goes on
BodyContinue(w) ==
    /\ wk' = [wk EXCEPT ![w] = @ + 1]
    /\ wpc' = [wpc EXCEPT ![w] = "iter_check"]
    /\ UNCHANGED <<wi, errIndex>>

\* the handler returns from _execute; _run picks the next index
BodyReturn(w, next_idx) ==
    /\ wi' = [wi EXCEPT ![w] = Advance(@, next_idx)]
    /\ wpc' = [wpc EXCEPT ![w] = "loop_top"]
    /\ UNCHANGED <<wk, errIndex>>

BodyRaise(w) == Raise(w) /\ UNCHANGED <<wi, wk>>

\* what a handler other than detect / loop_until leaves alone
PlainFrame ==
    /\ WFrame
    /\ UNCHANGED <<context, statusBar, result, wloops, visited, dets>>

\* t == "wait": time.sleep(int(params.get("ms", 0)) / 1000.0)
WWait(w) ==
    /\ AtBody(w, "wait")
    /\ calls' = {}
    /\ IF SleepRaises(Get(ActParams(CurAct(w)), "ms", 0))
       THEN BodyRaise(w) ELSE BodyContinue(w)
    /\ PlainFrame

\* the collaborators of the engine
InputCalls ==
    {"mouse.click", "keyboard.type_text_sequence", "keyboard.press_keys"}
DetectCalls == {"grab_screen", "match_template", "feature_match"}

\* faulty variant: the handlers ignore the simulation flag
SimulatedNever == FALSE

\* if not self._simulation: ...
Simulated == simulation

\* t == "mouse_click": self.mouse.click unless simulation; it may raise
WMouseClick(w, fails) ==
    /\ AtBody(w, "mouse_click")
    /\ fails => ~Simulated
    /\ calls' = IF Simulated THEN {} ELSE {"mouse.click"}
    /\ IF fails THEN BodyRaise(w) ELSE BodyContinue(w)
    /\ PlainFrame

\* t == "key_sequence": self.keyboard.* unless simulation; it may raise
WKeySequence(w, fails) ==
    /\ AtBody(w, "key_sequence")
    /\ fails => ~Simulated
    /\ calls' = IF Simulated THEN {}
                ELSE IF Get(ActParams(CurAct(w)), "text_mode", TRUE)
                THEN {"keyboard.type_text_sequence"}
                ELSE {"keyboard.press_keys"}
    /\ IF fails THEN BodyRaise(w) ELSE BodyContinue(w)
    /\ PlainFrame

\* what grab_screen and the matcher can do: a result, or an exception of
\* grab_screen, or an exception of the matcher
DetectOutcomes == {"found", "not_found", "raise_grab", "raise_match"}

\* method = params.get("method", "template")
Matcher(a) ==
    IF Get(ActParams(a), "method", "template") = "feature"
    THEN "feature_match" ELSE "match_template"

\* action.setdefault("result", self._context["last_detect"])
SetDefaultResult(w, ld) ==
    IF wi[w] + 1 \in DOMAIN result /\ IsNone(result[wi[w] + 1])
    THEN [result EXCEPT ![wi[w] + 1] = Some(ld)]
    ELSE result

\* t == "detect"
WDetect(w, outcome) ==
    /\ AtBody(w, "detect")
    /\ calls' = IF outcome = "raise_grab" THEN {"grab_screen"}
                ELSE {"grab_screen", Matcher(CurAct(w))}
    /\ IF outcome \in {"raise_grab", "raise_match"}
       THEN /\ BodyRaise(w)
            /\ UNCHANGED <<context, result, dets>>
       ELSE LET ld == [found |-> (outcome = "found")] IN
            /\ context' = [context EXCEPT !.last_detect = Some(ld)]
            /\ result' = SetDefaultResult(w, ld)
            /\ dets' = [dets EXCEPT ![w] = Append(@, ld.found)]
            /\ BodyContinue(w)
    /\ WFrame
    /\ UNCHANGED <<statusBar, wloops, visited>>

\* t == "conditional_jump": return next_index, or fall through
WCondJump(w) ==
    /\ AtBody(w, "conditional_jump")
    /\ calls' = {}
    /\ LET next_idx == CondJumpNext(CurAct(w), context, IndexMap(wacts[w])) IN
       IF IsNone(next_idx) THEN BodyContinue(w) ELSE BodyReturn(w, next_idx)
    /\ PlainFrame

\* t == "label"
WLabel(w) ==
    /\ AtBody(w, "label")
    /\ calls' = {}
    /\ BodyContinue(w)
    /\ PlainFrame

\* t == "loop_until": every branch returns from _execute
WLoopUntil(w) ==
    /\ AtBody(w, "loop_until")
    /\ calls' = {}
    /\ LET r == LoopUntilStep(CurAct(w), context, wloops[w], wi[w],
                              IndexMap(wacts[w])) IN
       /\ wloops' = [wloops EXCEPT ![w] = r.loops]
       /\ BodyReturn(w, r.next)
    /\ WFrame
    /\ UNCHANGED <<context, statusBar, result, visited, dets>>

KnownTypes ==
    {"wait", "mouse_click", "key_sequence", "detect", "conditional_jump",
     "label", "loop_until"}

\* faulty variant: an unknown type raises
WUnknownRaises(w) ==
    /\ wpc[w] = "iter_body"
    /\ ActType(CurAct(w)) \notin KnownTypes
    /\ AtBody(w, ActType(CurAct(w)))
    /\ calls' = {}
    /\ BodyRaise(w)
    /\ PlainFrame

\* else: unknown_action_type
WUnknown(w) ==
    /\ wpc[w] = "iter_body"
    /\ ActType(CurAct(w)) \notin KnownTypes
    /\ AtBody(w, ActType(CurAct(w)))
    /\ calls' = {}
    /\ BodyContinue(w)
    /\ PlainFrame

\* self._emit("Idle")
WEmitIdle(w) ==
    /\ wpc[w] = "emit_idle"
    /\ statusBar' = "Idle"
    /\ wpc' = [wpc EXCEPT ![w] = "exiting"]
    /\ WFrame
    /\ UNCHANGED <<context, result, wi, wk, wloops, histVars, calls>>

\* _run returns: the thread is no longer alive and its locals are gone
WExit(w) ==
    /\ wpc[w] = "exiting"
    /\ wpc' = [wpc EXCEPT ![w] = "dead"]
    /\ wi' = [wi EXCEPT ![w] = 0]
    /\ wk' = [wk EXCEPT ![w] = 0]
    /\ wloops' = [wloops EXCEPT ![w] = <<>>]
    /\ wacts' = [wacts EXCEPT ![w] = <<>>]
    /\ visited' = [visited EXCEPT ![w] = <<>>]
    /\ trace' = [trace EXCEPT ![w] = <<>>]
    /\ dets' = [dets EXCEPT ![w] = <<>>]
    /\ stopMark' = [stopMark EXCEPT ![w] = None]
    /\ calls' = {}
    /\ UNCHANGED <<worker, stopEv, pauseEv, simulation, callerVars, nThreads,
                   context, statusBar, result, errIndex, pureVars>>

\* ------------------------------------------------------- specification
Next ==
    \/ \E tl \in Timelines, reuse \in BOOLEAN : Start(tl, reuse)
    \/ StartReturn
    \/ Pause
    \/ Resume
    \/ Stop
    \/ EStop
    \/ CallerEmit
    \/ \E b \in BOOLEAN : SetSimulation(b)
    \/ \E w \in Threads :
        \/ WRunBegin(w)
        \/ WLoopTop(w)
        \/ WPauseWait(w)
        \/ WIterCheck(w)
        \/ WWait(w)
        \/ \E fails \in BOOLEAN : WMouseClick(w, fails)
        \/ \E fails \in BOOLEAN : WKeySequence(w, fails)
        \/ \E outcome \in DetectOutcomes : WDetect(w, outcome)
        \/ WCondJump(w)
        \/ WLabel(w)
        \/ WLoopUntil(w)
        \/ WUnknown(w)
        \/ WEmitIdle(w)
        \/ WExit(w)

Spec == Init /\ [][Next]_vars

\* the steps of worker thread w
WorkerNext(w) ==
    \/ WRunBegin(w)
    \/ WLoopTop(w)
    \/ WPauseWait(w)
    \/ WIterCheck(w)
    \/ WWait(w)
    \/ \E fails \in BOOLEAN : WMouseClick(w, fails)
    \/ \E fails \in BOOLEAN : WKeySequence(w, fails)
    \/ \E outcome \in DetectOutcomes : WDetect(w, outcome)
    \/ WCondJump(w)
    \/ WLabel(w)
    \/ WLoopUntil(w)
    \/ WUnknown(w)
    \/ WEmitIdle(w)
    \/ WExit(w)

\* The engine up to the end of its first run, with fair scheduling: a
\* started thread is scheduled again and again and its sleeps return.
FirstRunNext ==
    \/ \E tl \in Timelines, reuse \in BOOLEAN :
          Start(tl, reuse) /\ nThreads' <= 1
    \/ StartReturn
    \/ Pause
    \/ Resume
    \/ Stop
    \/ EStop
    \/ CallerEmit
    \/ \E b \in BOOLEAN : SetSimulation(b)
    \/ \E w \in Threads : WorkerNext(w)

FirstRunFair ==
    Init /\ [][FirstRunNext]_vars /\ \A w \in Threads : WF_vars(WorkerNext(w))

\* --------------------------------- a caller that edits its list
\* what the caller may do to the list it passed: list.pop(), or
\* list.append() of one more action dict
Edits(tl) ==
    {SubSeq(tl, 1, Len(tl) - 1),
     Append(tl, With(Act("x", "wait"), "params", [ms |-> 0]))}

\* faulty variant: the thread is given the caller's list itself (seen here
\* when the list grows)
AliasedWhenLonger(w) ==
    w = worker /\ Alive(w) /\ Len(callerActs') > Len(callerActs)

\* list(actions): the thread's list is a copy, not the caller's list
Aliased(w) == FALSE

\* the caller changes the list it passed, once, while the run it started
\* is alive
CallerEdit(tl) ==
    /\ callerPc = "none"
    /\ worker # 0
    /\ Alive(worker)
    /\ callerActs = wacts[worker]
    /\ callerActs' = tl
    /\ wacts' = [w \in Threads |-> IF Aliased(w) THEN tl ELSE wacts[w]]
    /\ UNCHANGED <<engineVars, statusBar, callerPc, pendRun, result, nThreads,
                   wpc, wi, wk, wloops, histVars, calls, pureVars>>

EditTimelines == {TLinear, TShort, TScenario, TLoop(1)}

\* One run, during which the caller may edit its list.
EditNext ==
    \/ \E tl \in EditTimelines : Start(tl, FALSE) /\ nThreads' <= 1
    \/ StartReturn
    \/ \E tl \in Edits(callerActs) : CallerEdit(tl)
    \/ \E b \in BOOLEAN : SetSimulation(b)
    \/ \E w \in Threads : WorkerNext(w)

EditSpec == Init /\ [][EditNext]_vars

\* ------------------------------------------- loop_until timelines
\* [label top, loop_until (no detect yet), detect, loop_until, wait], both
\* loops back to top with the given test and value, at most once each
TUntil(test, value) ==
    << With(Act("u0", "label"), "target", "top"),
       With(Act("u1", "loop_until"), "params",
            [label |-> "top", until |-> [test |-> test, value |-> value],
             max_iters |-> 1]),
       With(Act("u2", "detect"), "target", "tmpl.png"),
       With(Act("u3", "loop_until"), "params",
            [label |-> "top", until |-> [test |-> test, value |-> value],
             max_iters |-> 1]),
       With(Act("u4", "wait"), "params", [ms |-> 0]) >>

\* two loops back to the same label, the second re-entering the first; no
\* detect, so neither condition is ever met
TNest ==
    << With(Act("n0", "label"), "target", "A"),
       With(Act("n1", "loop_until"), "params", [label |-> "A", max_iters |-> 2]),
       With(Act("n2", "loop_until"), "params", [label |-> "A", max_iters |-> 1]),
       With(Act("n3", "wait"), "params", [ms |-> 0]) >>

UntilTests == {"last_detect", "var:last_detect", "var:flag", "other"}

LoopTimelines ==
    {TUntil(test, value) : test \in UntilTests, value \in BOOLEAN} \cup {TNest}

\* One run of a loop_until timeline, which stop() / estop() may end.
LoopNext ==
    \/ \E tl \in LoopTimelines : Start(tl, FALSE) /\ nThreads' <= 1
    \/ StartReturn
    \/ Stop
    \/ EStop
    \/ CallerEmit
    \/ \E w \in Threads :
        \/ WRunBegin(w)
        \/ WLoopTop(w)
        \/ WPauseWait(w)
        \/ WIterCheck(w)
        \/ WWait(w)
        \/ \E outcome \in DetectOutcomes : WDetect(w, outcome)
        \/ WLabel(w)
        \/ WLoopUntil(w)
        \/ WEmitIdle(w)
        \/ WExit(w)

LoopSpec == Init /\ [][LoopNext]_vars

\* ------------------------------------------------ util/nms.py
\* boxes are <<x, y, w, h>>; a threshold is a fraction [num, den], den > 0
Min2(a, b) == IF a <= b THEN a ELSE b

\* inter = iw * ih
IouInter(a, b) ==
    LET ix1 == Max2(a[1], b[1])
        iy1 == Max2(a[2], b[2])
        ix2 == Min2(a[1] + a[3], b[1] + b[3])
        iy2 == Min2(a[2] + a[4], b[2] + b[4])
    IN  Max2(0, ix2 - ix1) * Max2(0, iy2 - iy1)

\* union = aw * ah + bw * bh - inter
IouUnion(a, b) == a[3] * a[4] + b[3] * b[4] - IouInter(a, b)

\* faulty variant: nothing is ever suppressed
IouExceedsNever(a, b, thr) == FALSE

\* iou(bi, bj) > iou_threshold, iou being inter / union, or 0.0 if union <= 0
IouExceeds(a, b, thr) ==
    IF IouUnion(a, b) > 0
    THEN IouInter(a, b) * thr.den > thr.num * IouUnion(a, b)
    ELSE 0 > thr.num

\* scores.argsort()[::-1]: the indices by non-increasing score; the default
\* sort of argsort is not stable, so equal scores come in any order
ArgsortDesc(scores) ==
    LET n == Len(scores) IN
    {o \in [1 .. n -> 0 .. n - 1] :
        /\ \A j, k \in 1 .. n : j # k => o[j] # o[k]
        /\ \A j \in 1 .. n - 1 : scores[o[j] + 1] >= scores[o[j + 1] + 1]}

\* the while loop of non_max_suppression
RECURSIVE NmsLoop(_, _, _, _)
NmsLoop(boxes, thr, idxs, keep) ==
    IF idxs = <<>> THEN keep
    ELSE LET i == Head(idxs)
             rest == Tail(idxs)
             Stays(j) == ~IouExceeds(boxes[i + 1], boxes[j + 1], thr)
         IN  IF rest = <<>> THEN Append(keep, i)
             ELSE NmsLoop(boxes, thr, SelectSeq(rest, Stays), Append(keep, i))

\* non_max_suppression(boxes, scores, iou_threshold), idxs being the outcome
\* of the argsort
NonMaxSuppression(boxes, idxs, thr) ==
    IF boxes = <<>> THEN <<>> ELSE NmsLoop(boxes, thr, idxs, <<>>)

\* the inputs tried
MaxBoxes == 3
NmsBoxes == {<<0, 0, 0, 1>>, <<0, 0, 1, 1>>, <<1, 0, 1, 1>>, <<0, 0, 2, 1>>}
NmsScores == 1 .. 2
NmsThresholds ==
    {[num |-> 0 - 1, den |-> 1], [num |-> 0, den |-> 1],
     [num |-> 1, den |-> 3], [num |-> 1, den |-> 2]}

\* s[k] for the indices k of keep, in that order
Selected(s, keep) == [j \in 1 .. Len(keep) |-> s[keep[j] + 1]]

NmsInit ==
    /\ EngineInit
    /\ fm = None
    /\ tm = None
    /\ det = None
    /\ \E n \in 0 .. MaxBoxes :
         \E boxes \in [1 .. n -> NmsBoxes], scores \in [1 .. n -> NmsScores],
            thr \in NmsThresholds :
              nms = [pc |-> "in", boxes |-> boxes, scores |-> scores,
                     thr |-> thr, keep |-> <<>>, again |-> <<>>]

\* keep = non_max_suppression(boxes, scores, thr)
NmsApply ==
    /\ nms.pc = "in"
    /\ \E idxs \in ArgsortDesc(nms.scores) :
         nms' = [nms EXCEPT !.pc = "out",
                            !.keep = NonMaxSuppression(nms.boxes, idxs, nms.thr)]
    /\ UNCHANGED <<engineAll, fm, tm, det>>

\* again = non_max_suppression(boxes[keep], scores[keep], thr)
NmsApplyAgain ==
    /\ nms.pc = "out"
    /\ \E idxs \in ArgsortDesc(Selected(nms.scores, nms.keep)) :
         nms' = [nms EXCEPT !.pc = "out2",
                            !.again = NonMaxSuppression(
                                Selected(nms.boxes, nms.keep), idxs, nms.thr)]
    /\ UNCHANGED <<engineAll, fm, tm, det>>

NmsNext == NmsApply \/ NmsApplyAgain

NmsSpec == NmsInit /\ [][NmsNext]_vars

\* ------------------------------------- detect/feature_matcher.py
\* What cv2 yields for a cluster of good matches, or for all of them: None if
\* findHomography gives no H, else the inliers, the number of points and
\* the projected bbox.  score = inliers / max(1, points) is kept as the
\* fraction [num, den].
Homography(inliers, points, bbox) ==
    Some([score |-> [num |-> inliers, den |-> Max2(1, points)], bbox |-> bbox])

\* a >= b for fractions with positive denominators
FracGe(a, b) == a.num * b.den >= b.num * a.den

\* faulty variant: the candidate of a cluster is appended whatever its score
AcceptedAlways(h, thr) == ~IsNone(h)

\* H is not None and score >= confidence_threshold
Accepted(h, thr) == ~IsNone(h) /\ FracGe(Val(h).score, thr)

\* the for loop over the clusters: the candidates in cluster order
ClusterCandidates(clusters, thr) ==
    LET Ok(h) == Accepted(h, thr) IN
    [j \in 1 .. Len(SelectSeq(clusters, Ok)) |-> Val(SelectSeq(clusters, Ok)[j])]

\* if not candidates: the global homography, if there is one
WithFallback(cands, global) ==
    IF cands # <<>> THEN cands
    ELSE IF IsNone(global) THEN <<>> ELSE <<Val(global)>>

\* candidates.sort(key=lambda c: c.score, reverse=True): a stable sort
RECURSIVE InsertDesc(_, _)
InsertDesc(sorted, c) ==
    IF sorted = <<>> THEN <<c>>
    ELSE IF FracGe(Head(sorted).score, c.score)
    THEN <<Head(sorted)>> \o InsertDesc(Tail(sorted), c)
    ELSE <<c>> \o sorted

RECURSIVE SortDesc(_)
SortDesc(q) ==
    IF q = <<>> THEN <<>>
    ELSE InsertDesc(SortDesc(SubSeq(q, 1, Len(q) - 1)), q[Len(q)])

\* candidates[:max_candidates] for max_candidates >= 0
Truncate(q, n) == SubSeq(q, 1, Min2(Len(q), n))

\* the orders argsort()[::-1] can give the scores of the candidates
CandidateOrders(cands) ==
    LET n == Len(cands) IN
    {o \in [1 .. n -> 0 .. n - 1] :
        /\ \A j, k \in 1 .. n : j # k => o[j] # o[k]
        /\ \A j \in 1 .. n - 1 :
             FracGe(cands[o[j] + 1].score, cands[o[j + 1] + 1].score)}

\* iou_threshold=0.3
FmIouThreshold == [num |-> 3, den |-> 10]

\* feature_match from line 97 on, idxs being the outcome of the argsort
FeatureMatch(clusters, global, thr, max_candidates, idxs) ==
    LET cands == WithFallback(ClusterCandidates(clusters, thr), global)
        boxes == [j \in 1 .. Len(cands) |-> cands[j].bbox]
        keep_idx == NonMaxSuppression(boxes, idxs, FmIouThreshold)
    IN  Truncate(SortDesc(Selected(cands, keep_idx)), max_candidates)

\* the inputs tried
MaxClusters == 2
FmBoxes == {<<0, 0, 2, 1>>, <<0, 0, 1, 1>>, <<5, 0, 2, 1>>}
FmHomographies ==
    {None} \cup {Homography(i, 6, b) : i \in {0, 3, 6}, b \in FmBoxes}
FmGlobals == {None} \cup {Homography(i, 8, <<0, 0, 2, 1>>) : i \in {0, 2, 8}}
FmThresholds ==
    {[num |-> 0, den |-> 1], [num |-> 1, den |-> 2], [num |-> 3, den |-> 4]}

FmInit ==
    /\ EngineInit
    /\ nms = None
    /\ tm = None
    /\ det = None
    /\ \E n \in 0 .. MaxClusters :
         \E clusters \in [1 .. n -> FmHomographies], global \in FmGlobals,
            thr \in FmThresholds, max_candidates \in 0 .. MaxClusters,
            early \in BOOLEAN :
              \* early: an image cannot be read, or there are fewer than 4
              \* keypoints or good matches (then there are no clusters)
              /\ early => n = 0 /\ IsNone(global)
              /\ fm = [pc |-> "in", early |-> early, clusters |-> clusters,
                       global |-> global, thr |-> thr,
                       max_candidates |-> max_candidates, out |-> <<>>]

FmApply ==
    /\ fm.pc = "in"
    /\ IF fm.early
       THEN fm' = [fm EXCEPT !.pc = "out", !.out = <<>>]
       ELSE \E idxs \in CandidateOrders(
                   WithFallback(ClusterCandidates(fm.clusters, fm.thr),
                                fm.global)) :
              fm' = [fm EXCEPT
                       !.pc = "out",
                       !.out = FeatureMatch(fm.clusters, fm.global, fm.thr,
                                            fm.max_candidates, idxs)]
    /\ UNCHANGED <<engineAll, nms, tm, det>>

FmNext == FmApply

FmSpec == FmInit /\ [][FmNext]_vars

\* ------------------------------------ detect/template_matcher.py
\* scores are in hundredths: -100 is the -1.0 best_score starts from
\* scales = [1.0, 0.9, 0.8, 1.1], in percent
Scales == <<100, 90, 80, 110>>

\* best_score = -1.0
InitialBestScore == 0 - 100

\* max(1, int(tmpl.shape[..] * s))
Resized(side, scale) == Max2(1, (side * scale) \div 100)

\* if score > best_score
Better(score, best_score) == score > best_score

\* a cv2.error leaves match_template as an exception
TmRaised == [raised |-> TRUE, found |-> FALSE, bbox |-> None, score |-> 0]

\* MatchResult(found, bbox, score)
MatchResult(found, bbox, score) ==
    [raised |-> FALSE, found |-> found, bbox |-> bbox, score |-> score]

\* the for loop over the scales from the k-th on; in.res[k] is what
\* cv2.matchTemplate and minMaxLoc give at that scale: a cv2.error (ok is
\* FALSE), or max_val and max_loc
RECURSIVE ScaleLoop(_, _, _, _)
ScaleLoop(in, k, best_score, best_bbox) ==
    IF k > Len(Scales) THEN MatchResult(best_score >= in.thr, best_bbox, best_score)
    ELSE IF ~in.res[k].ok THEN TmRaised
    ELSE IF Better(in.res[k].max_val, best_score)
    THEN ScaleLoop(in, k + 1, in.res[k].max_val,
                   Some(<<in.res[k].max_loc[1], in.res[k].max_loc[2],
                          Resized(in.tmpl.w, Scales[k]),
                          Resized(in.tmpl.h, Scales[k])>>))
    ELSE ScaleLoop(in, k + 1, best_score, best_bbox)

\* match_template
MatchTemplate(in) ==
    IF ~in.readable THEN MatchResult(FALSE, None, 0)
    ELSE ScaleLoop(in, 1, InitialBestScore, None)

\* the inputs tried
TmError == [ok |-> FALSE, max_val |-> 0, max_loc |-> <<0, 0>>]
TmResults ==
    {TmError} \cup
    [ok : {TRUE}, max_val : {0 - 100, 0, 90}, max_loc : {<<0, 0>>, <<3, 0>>}]
TmTemplates == {[w |-> 1, h |-> 1], [w |-> 10, h |-> 20]}
TmThresholds == {0 - 100, 0, 85}

TmInit ==
    /\ EngineInit
    /\ nms = None
    /\ fm = None
    /\ det = None
    /\ \E readable \in BOOLEAN, res \in [1 .. Len(Scales) -> TmResults],
          tmpl \in TmTemplates, thr \in TmThresholds :
            /\ ~readable =>
                 (tmpl = [w |-> 1, h |-> 1] /\ \A k \in DOMAIN res : res[k] = TmError)
            /\ tm = [pc |-> "in",
                     in |-> [readable |-> readable, res |-> res, tmpl |-> tmpl,
                             thr |-> thr],
                     out |-> None]

TmApply ==
    /\ tm.pc = "in"
    /\ tm' = [tm EXCEPT !.pc = "out", !.out = Some(MatchTemplate(tm.in))]
    /\ UNCHANGED <<engineAll, nms, fm, det>>

TmNext == TmApply

TmSpec == TmInit /\ [][TmNext]_vars

\* ------------------------------------ the detect handler of _execute
\* conf = float(params.get("conf", 0.85)), in hundredths
DetectConf(a) == Get(ActParams(a), "conf", 85)

\* a threshold in hundredths as a fraction
Hundredths(n) == [num |-> n, den |-> 100]

\* max_candidates of feature_match, which the engine does not pass
DefaultMaxCandidates == 5

\* the handler raised
DetectRaised == [raised |-> TRUE, found |-> FALSE]

\* method == "feature": best = res.candidates[0] if res.candidates else None
\* found = best is not None and best.score >= conf
FeatureDetect(candidates, conf) ==
    [raised |-> FALSE,
     found |-> candidates # <<>>
                  /\ FracGe(candidates[1].score, Hundredths(conf))]

\* else: found = res.found of match_template
TemplateDetect(res) ==
    IF res.raised THEN DetectRaised
    ELSE [raised |-> FALSE, found |-> res.found]

\* The detect handler for action a, world being what cv2 finds on the screen
\* for either matcher and idxs the outcome of the argsort inside
\* feature_match: the threshold passed to the matcher and found of the
\* last_detect stored.
Detect(a, world, idxs) ==
    LET conf == DetectConf(a) IN
    [conf |-> conf,
     ld |-> IF Matcher(a) = "feature_match"
            THEN FeatureDetect(
                     FeatureMatch(world.clusters, world.global,
                                  Hundredths(conf), DefaultMaxCandidates, idxs),
                     conf)
            ELSE TemplateDetect(MatchTemplate([world.tm EXCEPT !.thr = conf]))]

\* the inputs tried: detect actions with and without conf and method
DetParams ==
    {<<>>, [method |-> "template"], [method |-> "feature"], [conf |-> 50],
     [conf |-> 50, method |-> "feature"], [conf |-> 90, method |-> "feature"]}
DetActions ==
    {With(With(Act("d1", "detect"), "target", "tmpl.png"), "params", p) :
        p \in DetParams \ {<<>>}}
      \cup {With(Act("d1", "detect"), "target", "tmpl.png")}
DetHomographies ==
    {None} \cup {Homography(i, 10, <<0, 0, 2, 1>>) : i \in {4, 6, 9}}
DetGlobals ==
    {None} \cup {Homography(i, 10, <<5, 0, 2, 1>>) : i \in {6, 10}}
DetTmResults ==
    {TmError} \cup [ok : {TRUE}, max_val : {40, 60, 90}, max_loc : {<<0, 0>>}]

DetInit ==
    /\ EngineInit
    /\ nms = None
    /\ fm = None
    /\ tm = None
    /\ \E a \in DetActions, cluster \in DetHomographies, global \in DetGlobals,
          res \in [1 .. Len(Scales) -> DetTmResults] :
            det = [pc |-> "in", a |-> a,
                   world |-> [clusters |-> <<cluster>>, global |-> global,
                              tm |-> [readable |-> TRUE, res |-> res,
                                      tmpl |-> [w |-> 10, h |-> 20], thr |-> 0]],
                   conf |-> 0, ld |-> DetectRaised]

DetApply ==
    /\ det.pc = "in"
    /\ \E idxs \in CandidateOrders(
            WithFallback(ClusterCandidates(det.world.clusters,
                                           Hundredths(DetectConf(det.a))),
                         det.world.global)) :
         LET r == Detect(det.a, det.world, idxs) IN
         det' = [det EXCEPT !.pc = "out", !.conf = r.conf, !.ld = r.ld]
    /\ UNCHANGED <<engineAll, nms, fm, tm>>

DetNext == DetApply

DetSpec == DetInit /\ [][DetNext]_vars

\* ------------------------------------------------- helpers of the claims
Last(q) == q[Len(q)]
Iota(n) == [j \in 1 .. n |-> j - 1]
IsPrefix(p, q) == Len(p) <= Len(q) /\ \A j \in 1 .. Len(p) : p[j] = q[j]
Count(q, x) == Cardinality({j \in 1 .. Len(q) : q[j] = x})

RECURSIVE Rep(_, _)
Rep(q, n) == IF n <= 0 THEN <<>> ELSE q \o Rep(q, n - 1)

ControlTypes == {"detect", "conditional_jump", "loop_until"}
ControlFree(tl) == \A j \in 1 .. Len(tl) : ActType(tl[j]) \notin ControlTypes

\* the handler iterations of a control-free timeline run to its end
RECURSIVE LinearTrace(_, _)
LinearTrace(tl, j) ==
    IF j > Len(tl) THEN <<>>
    ELSE Rep(<<j - 1>>, Repeats(tl[j])) \o LinearTrace(tl, j + 1)

\* the run of thread w is over (its loop has been left)
RunOver(w) == wpc[w] \in {"emit_idle", "exiting"}

\* no stop()/estop() during the run of thread w and no handler exception
Undisturbed(w) == IsNone(stopMark[w]) /\ IsNone(errIndex[w])

\* ------------------------------------------------------------------ C1
\* C1: at most one worker thread is alive at any moment, and a start() made
\* while the worker is alive (the step that logs engine_already_running)
\* changes neither the worker, the flags, the context nor any thread.
C1_AtMostOneRun ==
    /\ [](Cardinality({w \in Threads : Alive(w)}) <= 1)
    /\ [][(callerPc = "none" /\ callerPc' = "engine_already_running")
            => UNCHANGED <<worker, stopEv, pauseEv, context, threadVars>>]_vars

C1_Witness ==
    /\ callerPc = "engine_already_running"
    /\ worker = 1
    /\ wpc[1] = "iter_body"
    /\ nThreads = 1

\* ------------------------------------------------------------------ C2
\* C2: a run of a timeline without detect / conditional_jump / loop_until,
\* with no stop request and no handler exception, dispatches the indices in
\* increasing order from 0, has dispatched each of 0..n-1 exactly once (and
\* run max(1, repeat_count) handler iterations of each) when its loop ends,
\* and the worker's last status message is then "Idle".
C2_LinearRun ==
    \A w \in Threads :
        (Alive(w) /\ ControlFree(wacts[w]) /\ Undisturbed(w)) =>
            /\ visited[w] = Iota(Len(visited[w]))
            /\ RunOver(w) =>
                /\ visited[w] = Iota(Len(wacts[w]))
                /\ trace[w] = LinearTrace(wacts[w], 1)
            /\ (wpc[w] = "exiting" /\ statusBar \notin StatusMessages)
                   => statusBar = "Idle"

C2_Witness ==
    /\ wpc[1] = "exiting"
    /\ wacts[1] = TLinear
    /\ Undisturbed(1)
    /\ visited[1] = <<0, 1, 2, 3>>
    /\ statusBar = "Idle"

\* ------------------------------------------------------------------ C3
\* found of the most recent detect among the first p - 1 handler iterations
\* of thread w (FALSE when there is none)
FoundBefore(w, p) ==
    LET n == Cardinality({j \in 1 .. p - 1 :
                            ActType(wacts[w][trace[w][j] + 1]) = "detect"})
    IN  n > 0 /\ n <= Len(dets[w]) /\ dets[w][n]

\* C3: after every executed conditional_jump with test "last_detect" whose
\* selected target (true_target iff the run's most recent detect was found,
\* none yet counting as not found) is in the id/label map at index k, the
\* next handler iteration the worker executes is at index k.
C3_CondJumpTarget ==
    \A w \in Threads : \A p \in 1 .. Len(trace[w]) - 1 :
        LET a == wacts[w][trace[w][p] + 1]
            params == ActParams(a)
            target == IF FoundBefore(w, p)
                      THEN Get(params, "true_target", "")
                      ELSE Get(params, "false_target", "")
            map == IndexMap(wacts[w])
        IN  (/\ Alive(w)
             /\ ActType(a) = "conditional_jump"
             /\ Get(params, "test", "last_detect") = "last_detect"
             /\ target \in DOMAIN map)
            => trace[w][p + 1] = map[target]

C3_Witness ==
    /\ wacts[1] = TJump
    /\ dets[1] = <<TRUE>>
    /\ trace[1] = <<0, 1, 2, 4>>

\* ------------------------------------------------------------------ C4
AllFalse(ds) == \A j \in 1 .. Len(ds) : ~ds[j]

\* C4: in a run of [label, detect, loop_until{max_iters: n}, wait] whose
\* detect always yields found = false, the loop body (detect) is never run
\* more than n + 1 times, and a run that ends undisturbed has run the body
\* exactly n + 1 times and then the action after the loop_until.
C4_LoopMaxIters ==
    \A w \in Threads : \A n \in 0 .. MaxLoopIters :
        (Alive(w) /\ wacts[w] = TLoop(n) /\ AllFalse(dets[w])) =>
            /\ Count(trace[w], 1) <= n + 1
            /\ (RunOver(w) /\ Undisturbed(w)) =>
                   trace[w] = Rep(<<0, 1, 2>>, n + 1) \o <<3>>

C4_Witness ==
    /\ wacts[1] = TLoop(MaxLoopIters)
    /\ wpc[1] = "exiting"
    /\ Undisturbed(1)
    /\ AllFalse(dets[1])
    /\ Count(trace[1], 1) = MaxLoopIters + 1
    /\ Last(trace[1]) = 3

\* ------------------------------------------------------------------ C5
\* C5: a run of the scenario timeline that ends undisturbed has seen found =
\* false k times and then found = true, has executed the detect exactly k + 1
\* times, going back to the label "start" after each miss, has then reached
\* the label "done", and the worker's last status message is "Idle".
C5_Scenario ==
    \A w \in Threads :
        (wacts[w] = TScenario /\ RunOver(w) /\ Undisturbed(w)) =>
            LET k == Len(dets[w]) - 1 IN
            /\ k >= 0
            /\ AllFalse(SubSeq(dets[w], 1, k))
            /\ dets[w][k + 1]
            /\ Count(trace[w], 1) = k + 1
            /\ trace[w] = Rep(<<0, 1, 2>>, k + 1) \o <<3>>
            /\ (wpc[w] = "exiting" /\ statusBar \notin StatusMessages)
                   => statusBar = "Idle"

C5_Witness ==
    /\ wacts[1] = TScenario
    /\ wpc[1] = "exiting"
    /\ Undisturbed(1)
    /\ dets[1] = <<FALSE, FALSE, TRUE>>
    /\ Count(trace[1], 1) = 3
    /\ statusBar = "Idle"

C7_IdleIsFinal ==
    [][(callerPc \in {"Stopped", "EMERGENCY STOP"} /\ callerPc' = "none"
        /\ pendRun # 0) => Running(pendRun)]_vars

\* ------------------------------------------------------------------ C8
\* The handler iterations of an uninterrupted run of timeline tl whose
\* detections yield ds, up to the first detection ds does not cover:
\* _run and _execute without the stop / pause flags.
RECURSIVE RefRun(_, _, _, _, _, _, _, _)
RefRun(tl, map, i, k, ctx, loops, ds, acc) ==
    IF i >= Len(tl) \/ Len(acc) >= MaxTrace THEN acc
    ELSE
    LET a == tl[i + 1]
        t == ActType(a)
        here == Append(acc, i)
    IN  IF k = 0 /\ SleepRaises(DelayBefore(a)) THEN acc
        ELSE IF k >= Repeats(a)
        THEN IF SleepRaises(DelayAfter(a)) THEN acc
             ELSE RefRun(tl, map, i + 1, 0, ctx, loops, ds, acc)
        ELSE IF t = "wait"
        THEN IF SleepRaises(Get(ActParams(a), "ms", 0)) THEN here
             ELSE RefRun(tl, map, i, k + 1, ctx, loops, ds, here)
        ELSE IF t = "detect"
        THEN IF ds = <<>> THEN here
             ELSE RefRun(tl, map, i, k + 1,
                         [ctx EXCEPT !.last_detect = Some([found |-> Head(ds)])],
                         loops, Tail(ds), here)
        ELSE IF t = "conditional_jump"
        THEN LET n == CondJumpNext(a, ctx, map) IN
             IF IsNone(n) THEN RefRun(tl, map, i, k + 1, ctx, loops, ds, here)
             ELSE RefRun(tl, map, Val(n), 0, ctx, loops, ds, here)
        ELSE IF t = "loop_until"
        THEN LET r == LoopUntilStep(a, ctx, loops, i, map) IN
             RefRun(tl, map, Advance(i, r.next), 0, ctx, r.loops, ds, here)
        ELSE RefRun(tl, map, i, k + 1, ctx, loops, ds, here)

RefTrace(tl, ds) ==
    RefRun(tl, IndexMap(tl), 0, 0, FreshContext, <<>>, ds, <<>>)

\* the detection results a run can have seen: in every timeline of Timelines
\* a detect is followed by two other handler iterations before the next one
MaxDets == (MaxTrace + 2) \div 3

RECURSIVE BoolSeqs(_)
BoolSeqs(n) ==
    IF n = 0 THEN {<<>>}
    ELSE LET S == BoolSeqs(n - 1) IN
         S \cup {Append(q, b) : q \in {r \in S : Len(r) = n - 1}, b \in BOOLEAN}

\* the reference runs, tabulated (@@ makes TLC build the table once)
RefTable ==
    [tl \in Timelines, ds \in BoolSeqs(MaxDets) |-> RefTrace(tl, ds)] @@ <<>>

\* C8: whatever pause() / resume() calls are made during a run, the handler
\* iterations it executes are those of the uninterrupted run of the same
\* timeline with the same detection results: always a prefix of them, and
\* all of them when the run ends with no stop and no exception.
C8_PauseKeepsSequence ==
    \A w \in Threads :
        Alive(w) =>
            LET ref == RefTable[wacts[w], dets[w]] IN
            /\ IsPrefix(trace[w], ref)
            /\ (RunOver(w) /\ Undisturbed(w)) => trace[w] = ref

\* pause() was called during the run, resume() has just cleared the flag
\* and the worker, part of its timeline done, is in the pause loop
C8_Witness ==
    /\ wpc[1] = "pause_wait"
    /\ statusBar = "Paused"
    /\ callerPc = "Resumed"
    /\ ~pauseEv /\ ~stopEv
    /\ wacts[1] = TJump
    /\ trace[1] = <<0, 1>>

\* ------------------------------------------------------------------ C9
\* C9: once a handler of a run has raised at index i, the run is over: its
\* last dispatched index is i, it executes nothing more and the worker emits
\* "Idle"; after the thread has ended, a start() is accepted and begins with
\* both flags clear and a fresh context, and every run dispatches index 0
\* first with a context that holds only its own detections.
C9_ErrorEndsRun ==
    \A w \in Threads :
        /\ (Alive(w) /\ ~IsNone(errIndex[w])) =>
              /\ RunOver(w)
              /\ Last(visited[w]) = Val(errIndex[w])
              /\ (wpc[w] = "exiting" /\ statusBar \notin StatusMessages)
                     => statusBar = "Idle"
        /\ (wpc[w] = "dead" /\ ~IsNone(errIndex[w])) =>
              \/ worker = w
              \/ /\ worker = w + 1
                 /\ wpc[worker] = "emit_running"
                 /\ context = FreshContext
                 /\ visited[worker] = <<>>
        /\ visited[w] # <<>> => visited[w][1] = 0
        /\ (w = worker /\ Alive(w)) =>
              /\ context.last_detect =
                     IF dets[w] = <<>> THEN None
                     ELSE Some([found |-> Last(dets[w])])
              /\ trace[w] = <<>> => wloops[w] = <<>>

\* the run before raised in the mouse_click at index 3 of TJump, after a
\* detection; the next start() has been accepted
C9_Witness ==
    /\ wpc[1] = "dead"
    /\ errIndex[1] = Some(3)
    /\ worker = 2
    /\ wpc[2] = "emit_running"
    /\ context = FreshContext

\* ----------------------------------------------------------------- C10
\* C10: an accepted start() leaves both flags clear and the new thread at
\* the beginning of _run; a stop flag seen set during a run was set during
\* that run, and every run dispatches index 0 first.
C10_StartClearsFlags ==
    /\ [](\A w \in Threads :
            /\ (Running(w) /\ stopEv) => ~IsNone(stopMark[w])
            /\ visited[w] # <<>> => visited[w][1] = 0)
    /\ [][nThreads' # nThreads
            => /\ ~stopEv' /\ ~pauseEv'
               /\ worker' = nThreads'
               /\ wpc'[nThreads'] = "emit_running"]_vars

\* stop() was called while no run was active, then start() was accepted
C10_Witness ==
    /\ nThreads = 1
    /\ wpc[1] = "emit_running"
    /\ statusBar = "Stopped"
    /\ callerPc = "none"
    /\ ~stopEv /\ ~pauseEv

\* ----------------------------------------------------------------- C11
\* thread w executes a handler iteration in this step
HandlerStep(w) == Len(trace'[w]) > Len(trace[w])

\* C11: a handler iteration of a mouse_click or key_sequence that reads the
\* simulation flag set calls no input collaborator; a detect iteration calls
\* grab_screen whatever the flag is, and the matcher of its method too unless
\* grab_screen raised; and no handler calls anything else.
C11_SimulationSuppressesInput ==
    [][\A w \in Threads : HandlerStep(w) =>
          LET t == ActType(CurAct(w)) IN
          /\ (simulation /\ t \in {"mouse_click", "key_sequence"})
                 => calls' \cap InputCalls = {}
          /\ t = "detect" =>
                 /\ "grab_screen" \in calls'
                 /\ (IsNone(errIndex'[w]) => Matcher(CurAct(w)) \in calls')
          /\ t # "detect" => calls' \cap DetectCalls = {}]_vars

\* in simulation mode the detect of TJump has run (not found) and the
\* mouse_click the jump led to has just been executed without a click
C11_Witness ==
    /\ simulation
    /\ wacts[1] = TJump
    /\ dets[1] = <<FALSE>>
    /\ trace[1] = <<0, 1, 2, 3>>
    /\ calls = {}

\* ----------------------------------------------------------------- C12
\* C12: no index is dispatched (passed to _execute) in a step taken while
\* the pause flag is set and the stop flag is not, and the worker waiting in
\* the pause loop keeps its index.
C12_PausedNoDispatch ==
    [][\A w \in Threads :
          (pauseEv /\ ~stopEv) =>
              /\ Len(visited'[w]) <= Len(visited[w])
              /\ (wpc[w] = "pause_wait" /\ Alive(w)) =>
                     (wpc'[w] = "pause_wait" /\ wi'[w] = wi[w])]_vars

\* the worker has executed index 0 of TLinear and waits in the pause loop
\* before index 1, pause() having set the flag and emitted "Paused"
C12_Witness ==
    /\ pauseEv /\ ~stopEv
    /\ statusBar = "Paused"
    /\ callerPc = "none"
    /\ wacts[1] = TLinear
    /\ wpc[1] = "pause_wait"
    /\ wi[1] = 1
    /\ visited[1] = <<0>>

\* ----------------------------------------------------------------- C13
\* C13: while the stop flag is set no thread enters a handler iteration, the
\* flag stays set as long as the run's thread lives, and a worker in the
\* pause loop with both flags set leaves the loop and emits "Idle".
C13_PausedStopEndsRun ==
    /\ [][\A w \in Threads :
            stopEv => /\ (wpc'[w] = "iter_body" => wpc[w] = "iter_body")
                      /\ (Alive(w) /\ Alive(w)') => stopEv']_vars
    /\ \A w \in Threads :
          (wpc[w] = "pause_wait" /\ pauseEv /\ stopEv)
              ~> (wpc[w] = "exiting" /\ statusBar = "Idle")

\* paused before index 1 of TLinear, then stopped there, not resumed: the
\* worker has dispatched index 1 without running its handler (one handler
\* iteration in all, that of index 0) and has emitted "Idle"
C13_Witness ==
    /\ wacts[1] = TLinear
    /\ pauseEv /\ stopEv
    /\ stopMark[1] = Some([bodies |-> 1, visits |-> 2])
    /\ visited[1] = <<0, 1>>
    /\ trace[1] = <<0>>
    /\ wpc[1] = "exiting"
    /\ statusBar = "Idle"

\* ----------------------------------------------------------------- C14
\* the indices of the actions of tl that register key as their id, and of
\* the label actions that register it as their name
IdIdx(tl, key) == {j - 1 : j \in {n \in 1 .. Len(tl) : ActId(tl[n]) = key}}
LabelIdx(tl, key) ==
    {j - 1 : j \in {n \in 1 .. Len(tl) :
                      ActType(tl[n]) = "label" /\ LabelName(tl[n]) = key}}

\* the key a conditional_jump on last_detect executed as the p-th handler
\* iteration of thread w selects ("" when it is no such jump)
JumpKey(w, p) ==
    LET a == wacts[w][trace[w][p] + 1]
        params == ActParams(a)
    IN  IF /\ ActType(a) = "conditional_jump"
           /\ Get(params, "test", "last_detect") = "last_detect"
        THEN IF FoundBefore(w, p) THEN Get(params, "true_target", "")
             ELSE Get(params, "false_target", "")
        ELSE ""

\* every executed jump to a key that several actions register lands on
\* Landing(timeline, key)
JumpsLandOn(Landing(_, _)) ==
    \A w \in Threads : \A p \in 1 .. Len(trace[w]) - 1 :
        LET tl == wacts[w]
            key == JumpKey(w, p)
        IN  (/\ Alive(w)
             /\ key # ""
             /\ Cardinality(IdIdx(tl, key) \cup LabelIdx(tl, key)) >= 2)
            => trace[w][p + 1] = Landing(tl, key)

HighestIndex(tl, key) == SetMax(IdIdx(tl, key) \cup LabelIdx(tl, key))

LabelFirst(tl, key) ==
    IF LabelIdx(tl, key) # {} THEN SetMax(LabelIdx(tl, key))
    ELSE SetMax(IdIdx(tl, key))

Unresolved(tl, key) ==
    key = "" \/ IdIdx(tl, key) \cup LabelIdx(tl, key) = {}

\* the target a conditional_jump a selects under context ctx
SelectedTarget(a, ctx) ==
    IF CondJumpCond(ActParams(a), ctx)
    THEN Get(ActParams(a), "true_target", "")
    ELSE Get(ActParams(a), "false_target", "")

\* a jump action none of whose targets resolves in tl
NeverResolves(tl, a) ==
    \/ /\ ActType(a) = "conditional_jump"
       /\ Unresolved(tl, Get(ActParams(a), "true_target", ""))
       /\ Unresolved(tl, Get(ActParams(a), "false_target", ""))
    \/ /\ ActType(a) = "loop_until"
       /\ Unresolved(tl, Get(ActParams(a), "label", ""))

\* C15: a handler iteration of a conditional_jump whose selected target does
\* not resolve falls through to the repeat loop, one of a loop_until whose
\* label does not resolve returns to _run with the index advanced by one;
\* neither raises; and the index dispatched after a jump action none of whose
\* targets resolves is the next one.
C15_UnresolvedFallsThrough ==
    /\ [](\A w \in Threads : \A q \in 1 .. Len(visited[w]) - 1 :
            (Alive(w) /\ NeverResolves(wacts[w], wacts[w][visited[w][q] + 1]))
                => visited[w][q + 1] = visited[w][q] + 1)
    /\ [][\A w \in Threads : HandlerStep(w) =>
            LET a == CurAct(w) IN
            /\ (/\ ActType(a) = "conditional_jump"
                /\ Unresolved(wacts[w], SelectedTarget(a, context)))
                   => /\ wpc'[w] = "iter_check"
                      /\ wi'[w] = wi[w]
                      /\ errIndex' = errIndex
            /\ (/\ ActType(a) = "loop_until"
                /\ Unresolved(wacts[w], Get(ActParams(a), "label", "")))
                   => /\ wpc'[w] = "loop_top"
                      /\ wi'[w] = wi[w] + 1
                      /\ errIndex' = errIndex]_vars

\* the four jumps of TFall have fallen through and index 4 is dispatched
C15_Witness ==
    /\ wacts[1] = TFall
    /\ trace[1] = <<0, 1, 1, 2, 3>>
    /\ visited[1] = <<0, 1, 2, 3, 4>>
    /\ IsNone(errIndex[1])

\* ----------------------------------------------------------------- C16
\* C16: a handler iteration of an action of no known type calls no
\* collaborator, changes neither the context, the loop counters nor the
\* result keys, does not raise and falls through to the repeat loop; and the
\* index dispatched after such an action is the next one.
C16_UnknownTypeNoOp ==
    /\ [](\A w \in Threads : \A q \in 1 .. Len(visited[w]) - 1 :
            (Alive(w) /\ ActType(wacts[w][visited[w][q] + 1]) \notin KnownTypes)
                => visited[w][q + 1] = visited[w][q] + 1)
    /\ [][\A w \in Threads :
            (HandlerStep(w) /\ ActType(CurAct(w)) \notin KnownTypes) =>
                /\ calls' = {}
                /\ UNCHANGED <<context, wloops, result, errIndex, statusBar>>
                /\ wpc'[w] = "iter_check"
                /\ wi'[w] = wi[w]]_vars

\* the action of type "scroll" at index 4 of TFall has been executed, and
\* after it the wait at index 5
C16_Witness ==
    /\ wacts[1] = TFall
    /\ trace[1] = <<0, 1, 1, 2, 3, 4, 5>>
    /\ wloops[1] = (2 :> 1) @@ (3 :> 1)
    /\ IsNone(errIndex[1])

\* ----------------------------------------------------------------- C17
\* the score of the box of index k
NmsScore(k) == nms.scores[k + 1]

\* C17: the keep list of non_max_suppression holds distinct indices of the
\* input, the IoU of the boxes of any two of them is at most the threshold,
\* and for a non-empty input it holds the index of a box of highest score.
C17_NmsKeptPairs ==
    nms.pc = "out" =>
        LET keep == nms.keep
            n == Len(nms.boxes)
        IN  /\ \A j \in 1 .. Len(keep) : keep[j] \in 0 .. n - 1
            /\ \A j, k \in 1 .. Len(keep) :
                 j # k =>
                   /\ keep[j] # keep[k]
                   /\ LET a == nms.boxes[keep[j] + 1]
                          b == nms.boxes[keep[k] + 1]
                      IN  IF IouUnion(a, b) > 0
                          THEN IouInter(a, b) * nms.thr.den
                                   <= nms.thr.num * IouUnion(a, b)
                          ELSE 0 <= nms.thr.num
            /\ n > 0 =>
                 \E j \in 1 .. Len(keep) :
                    \A k \in 0 .. n - 1 : NmsScore(keep[j]) >= NmsScore(k)

\* of three boxes the second, which overlaps the first by half, is
\* suppressed at threshold 1/3 and the third, which does not, is kept
C17_Witness ==
    /\ nms.pc = "out"
    /\ nms.boxes = << <<0, 0, 1, 1>>, <<0, 0, 2, 1>>, <<1, 0, 1, 1>> >>
    /\ nms.scores = <<2, 1, 1>>
    /\ nms.thr = [num |-> 1, den |-> 3]
    /\ nms.keep = <<0, 2>>

\* ----------------------------------------------------------------- C18
\* C18: non_max_suppression applied to the boxes and scores its own output
\* selects returns all of them in the same order: the indices 0, 1, ..
C18_NmsIdempotent ==
    nms.pc = "out2" => nms.again = Iota(Len(nms.keep))

\* ----------------------------------------------------------------- C19
\* no cluster of the input of feature_match yields a candidate
NoClusterCandidate ==
    \A j \in 1 .. Len(fm.clusters) :
        \/ IsNone(fm.clusters[j])
        \/ ~FracGe(Val(fm.clusters[j]).score, fm.thr)

\* C19: the list feature_match returns is in non-increasing order of score
\* and no longer than max_candidates; if some cluster yielded a candidate
\* every entry has score >= confidence_threshold and comes from a cluster,
\* otherwise the list is empty or holds the global homography's candidate only.
C19_FeatureMatchCandidates ==
    fm.pc = "out" =>
        LET out == fm.out IN
        /\ \A j \in 1 .. Len(out) - 1 : FracGe(out[j].score, out[j + 1].score)
        /\ Len(out) <= fm.max_candidates
        /\ IF NoClusterCandidate
           THEN /\ Len(out) <= 1
                /\ \A j \in 1 .. Len(out) : Some(out[j]) = fm.global
           ELSE \A j \in 1 .. Len(out) :
                   /\ FracGe(out[j].score, fm.thr)
                   /\ \E k \in 1 .. Len(fm.clusters) :
                        fm.clusters[k] = Some(out[j])

\* two clusters, the second scoring higher: both candidates are returned,
\* the second first
C19_Witness ==
    /\ fm.pc = "out"
    /\ fm.thr = [num |-> 1, den |-> 2]
    /\ fm.clusters = << Homography(3, 6, <<0, 0, 2, 1>>),
                        Homography(6, 6, <<5, 0, 2, 1>>) >>
    /\ fm.max_candidates = 2
    /\ fm.out = << Val(Homography(6, 6, <<5, 0, 2, 1>>)),
                   Val(Homography(3, 6, <<0, 0, 2, 1>>)) >>

\* ----------------------------------------------------------------- C20
\* match_template has returned a result for readable images
TmReturned == tm.pc = "out" /\ tm.in.readable /\ ~Val(tm.out).raised

\* the scales (by position) that reach the highest score
TmBestScales ==
    {k \in 1 .. Len(Scales) :
        \A j \in 1 .. Len(Scales) : tm.in.res[k].max_val >= tm.in.res[j].max_val}

\* the bbox match_template forms at the k-th scale
TmBboxAt(k) ==
    <<tm.in.res[k].max_loc[1], tm.in.res[k].max_loc[2],
      Resized(tm.in.tmpl.w, Scales[k]), Resized(tm.in.tmpl.h, Scales[k])>>

\* the result is the best score and the bbox of the scale Pick chooses among
\* those reaching it, and found is score >= confidence_threshold
TmReturnsBest(Pick(_)) ==
    TmReturned =>
        LET out == Val(tm.out)
            k == Pick(TmBestScales)
        IN  /\ out.score = tm.in.res[k].max_val
            /\ out.bbox = Some(TmBboxAt(k))
            /\ out.found = (out.score >= tm.in.thr)

SetMin(S) == CHOOSE m \in S : \A x \in S : m <= x

\* C20 as stated: of the scales reaching the best score, the one evaluated
\* last gives the result.
C20_LastBestScaleWins == TmReturnsBest(SetMax)

\* What match_template does (C20 with the tie the other way round): for
\* readable images and no cv2 error, if some scale scores above -1.0 the
\* result is the best score with the bbox of the scale
\* evaluated first among those reaching it, else score -1.0 with no bbox;
\* found is score >= confidence_threshold; for an unreadable image the
\* result is (False, None, 0.0).
C20_FirstBestScaleWins ==
    /\ TmReturned =>
         IF \E k \in 1 .. Len(Scales) : tm.in.res[k].max_val > InitialBestScore
         THEN TmReturnsBest(SetMin)
         ELSE Val(tm.out) = MatchResult(InitialBestScore >= tm.in.thr, None,
                                        InitialBestScore)
    /\ (tm.pc = "out" /\ ~tm.in.readable) =>
         Val(tm.out) = MatchResult(FALSE, None, 0)

\* scales 1.0 and 0.8 both score 0.90, at different places: the result has
\* the bbox found at scale 1.0
C20_Witness ==
    /\ TmReturned
    /\ tm.in.tmpl = [w |-> 10, h |-> 20]
    /\ tm.in.thr = 85
    /\ tm.in.res = << [ok |-> TRUE, max_val |-> 90, max_loc |-> <<0, 0>>],
                      [ok |-> TRUE, max_val |-> 0, max_loc |-> <<0, 0>>],
                      [ok |-> TRUE, max_val |-> 90, max_loc |-> <<3, 0>>],
                      [ok |-> TRUE, max_val |-> 0, max_loc |-> <<0, 0>>] >>
    /\ Val(tm.out) = MatchResult(TRUE, Some(<<0, 0, 10, 20>>), 90)

\* ----------------------------------------------------------------- C21
\* thread w is inside the handler iteration of a wait action: past the stop
\* check of the repeat loop, its time.sleep not yet returned
InWait(w) == wpc[w] = "iter_body" /\ ActType(CurAct(w)) = "wait"

\* C21: while the pause flag is set and the stop flag is not, a worker inside
\* a wait stays inside it: the wait does not complete.
C21_PauseInsideWait ==
    [][\A w \in Threads :
          (InWait(w) /\ pauseEv /\ ~stopEv) => InWait(w)']_vars

\* ----------------------------------------------------------------- C22
\* thread w leaves the visit of its current action in this step and _run is
\* about to choose the next index
LeavesVisit(w) ==
    wpc[w] \in {"iter_check", "iter_body"} /\ wpc'[w] = "loop_top"

\* C22: a visit left with no stop requested has made max(1, repeat_count)
\* handler iterations and has gone through the delay_after sleep: it is left
\* from the end of the repeat loop, or, by a return inside the handler, only
\* if that iteration was the last one and there is no delay_after to sleep.
C22_VisitShape ==
    [][\A w \in Threads :
          (LeavesVisit(w) /\ ~stopEv) =>
              \/ wpc[w] = "iter_check" /\ wk[w] = Repeats(CurAct(w))
              \/ /\ wpc[w] = "iter_body"
                 /\ wk[w] + 1 = Repeats(CurAct(w))
                 /\ DelayAfter(CurAct(w)) = 0]_vars

\* ----------------------------------------------------------------- C23
\* the test of a loop_until evaluated as conditional_jump evaluates its
\* test, compared with until.value
UntilAsCondJump(a, ctx) ==
    LET until == Get(ActParams(a), "until", DefaultUntil) IN
    CondJumpCond([test |-> Get(until, "test", "last_detect")], ctx)
        = Get(until, "value", TRUE)

\* loop_iters.get(idx, 0)
LoopCount(loops, idx) == Get(loops, idx, 0)

\* C23: a handler iteration of a loop_until whose test, evaluated as
\* conditional_jump evaluates it, equals until.value falls through with its
\* counter unchanged; one whose test differs, below max_iters, increments
\* the counter.
C23_LoopUntilTest ==
    [][\A w \in Threads :
          (HandlerStep(w) /\ ActType(CurAct(w)) = "loop_until") =>
              IF UntilAsCondJump(CurAct(w), context)
              THEN wi'[w] = wi[w] + 1 /\ wloops'[w] = wloops[w]
              ELSE LoopCount(wloops[w], wi[w])
                       < Get(ActParams(CurAct(w)), "max_iters", DefaultMaxIters)
                     => LoopCount(wloops'[w], wi[w])
                            = LoopCount(wloops[w], wi[w]) + 1]_vars

\* ----------------------------------------------------------------- C24
MaxItersOf(a) == Get(ActParams(a), "max_iters", DefaultMaxIters)

\* how often the run of thread w went from index idx to an index not
\* after it
JumpsBack(w, idx) ==
    Cardinality({p \in 1 .. Len(trace[w]) - 1 :
                    trace[w][p] = idx /\ trace[w][p + 1] <= idx})

\* C24: in a run every loop counter is that of a loop_until action, keyed by
\* its index, and lies between 0 and the action's max_iters; the action has
\* jumped back at most that many times; and a step of the run changes no
\* counter except that of the loop_until it executes, which it increments
\* by one.
C24_LoopCounters ==
    /\ [](\A w \in Threads : Running(w) =>
            /\ \A idx \in DOMAIN wloops[w] :
                  /\ idx \in 0 .. Len(wacts[w]) - 1
                  /\ ActType(wacts[w][idx + 1]) = "loop_until"
                  /\ wloops[w][idx] \in 0 .. MaxItersOf(wacts[w][idx + 1])
            /\ \A idx \in 0 .. Len(wacts[w]) - 1 :
                  ActType(wacts[w][idx + 1]) = "loop_until" =>
                      /\ JumpsBack(w, idx) <= LoopCount(wloops[w], idx)
                      /\ JumpsBack(w, idx) <= MaxItersOf(wacts[w][idx + 1]))
    /\ [][\A w \in Threads : (Running(w) /\ Running(w)') =>
            \A idx \in 0 .. Len(wacts[w]) - 1 :
                \/ LoopCount(wloops'[w], idx) = LoopCount(wloops[w], idx)
                \/ /\ HandlerStep(w)
                   /\ idx = wi[w]
                   /\ ActType(CurAct(w)) = "loop_until"
                   /\ LoopCount(wloops'[w], idx)
                          = LoopCount(wloops[w], idx) + 1]_vars

\* the whole run of TNest: the second loop has jumped back once, and the
\* first loop, re-entered with its counter at max_iters, has not jumped again
C24_Witness ==
    /\ wacts[1] = TNest
    /\ wpc[1] = "exiting"
    /\ Undisturbed(1)
    /\ wloops[1] = (1 :> 2) @@ (2 :> 1)
    /\ trace[1] = <<0, 1, 0, 1, 0, 1, 2, 0, 1, 2, 3>>

\* ----------------------------------------------------------------- C25
\* C25: when a handler iteration of a detect has stored its detection, the
\* result key of that action's dict holds the detection just stored in
\* last_detect.
C25_ResultIsLastDetect ==
    [][\A w \in Threads :
          (HandlerStep(w) /\ ActType(CurAct(w)) = "detect"
              /\ Len(dets'[w]) > Len(dets[w]))
          => result'[wi[w] + 1] = context'.last_detect]_vars

\* ----------------------------------------------------------------- C26
\* the default threshold C26 gives for the method of action a
ClaimedDefaultConf(a) == IF Matcher(a) = "feature_match" THEN 50 ELSE 85

\* the match of det's action reaches the score n: for feature the score of
\* the cluster's or of the global homography, for template the max_val of
\* some scale
DetReaches(n) ==
    IF Matcher(det.a) = "feature_match"
    THEN \E h \in {det.world.clusters[1], det.world.global} :
            ~IsNone(h) /\ FracGe(Val(h).score, Hundredths(n))
    ELSE \E k \in 1 .. Len(Scales) : det.world.tm.res[k].max_val >= n

\* C26: a detect action without params.conf passes its matcher the threshold
\* 0.85 for method template (or none) and 0.5 for method feature, and its
\* detection is found when the match reaches that threshold.
C26_DefaultConf ==
    (det # None /\ det.pc = "out" /\ "conf" \notin DOMAIN ActParams(det.a)) =>
        /\ det.conf = ClaimedDefaultConf(det.a)
        /\ ~det.ld.raised =>
              (det.ld.found = DetReaches(ClaimedDefaultConf(det.a)))

\* ----------------------------------------------------------------- C27
\* C27: of two boxes of equal score whose IoU exceeds the threshold the one
\* of higher index is not kept, and kept boxes of equal score are kept in
\* the order of their indices.
C27_NmsTieByIndex ==
    nms.pc = "out" =>
        LET keep == nms.keep
            n == Len(nms.boxes)
        IN  /\ \A i, j \in 0 .. n - 1 :
                 (/\ i < j
                  /\ NmsScore(i) = NmsScore(j)
                  /\ IouExceeds(nms.boxes[i + 1], nms.boxes[j + 1], nms.thr))
                 => \A p \in 1 .. Len(keep) : keep[p] # j
            /\ \A p, q \in 1 .. Len(keep) :
                 (p < q /\ NmsScore(keep[p]) = NmsScore(keep[q]))
                 => keep[p] < keep[q]

\* ----------------------------------------------------------------- C28
\* C28: a run that has executed no handler iteration yet has a context
\* without last_detect and no loop counter, whatever ran before; and at any
\* time the last_detect of the running thread is its own latest detection
\* and each of its loop counters counts executions of its own.
C28_FreshContextPerRun ==
    \A w \in Threads :
        Alive(w) =>
            /\ trace[w] = <<>> => (context = FreshContext /\ wloops[w] = <<>>)
            /\ context.last_detect =
                   IF dets[w] = <<>> THEN None
                   ELSE Some([found |-> Last(dets[w])])
            /\ \A idx \in DOMAIN wloops[w] :
                   wloops[w][idx] <= Count(trace[w], idx)

\* the second run, of the same action dicts as the first, is at its first
\* action; the first run has left the result of its detection in the dict
C28_Witness ==
    /\ nThreads = 2
    /\ wacts[2] = TLoop(1)
    /\ wpc[2] = "iter_body"
    /\ trace[2] = <<>>
    /\ result[2] = Some([found |-> FALSE])
    /\ context = FreshContext

\* ----------------------------------------------------------------- C29
\* C29: the thread's list is the list passed to start() and stays so while
\* the run lasts, whatever the caller does to its own list; the run executes
\* the handler iterations of that list; no step of the thread changes the
\* caller's list or a key of its dicts other than result, and result
\* changes only for the detect action being executed.
C29_TimelineUntouched ==
    /\ [](\A w \in Threads : Alive(w) =>
            /\ wacts[w] \in EditTimelines
            /\ IsPrefix(trace[w], RefTable[wacts[w], dets[w]])
            /\ (RunOver(w) /\ IsNone(errIndex[w]))
                   => trace[w] = RefTable[wacts[w], dets[w]])
    /\ [][/\ nThreads' # nThreads => wacts'[nThreads'] = callerActs'
          /\ \A w \in Threads :
                (Alive(w) /\ Alive(w)') => wacts'[w] = wacts[w]
          /\ (\E w \in Threads : wpc'[w] # wpc[w] /\ wpc[w] # "unborn")
                => callerActs' = callerActs
          /\ nThreads' = nThreads =>
                /\ DOMAIN result' = DOMAIN result
                /\ \A j \in DOMAIN result :
                      result'[j] # result[j] =>
                          /\ HandlerStep(worker)
                          /\ j = wi[worker] + 1
                          /\ ActType(CurAct(worker)) = "detect"]_vars

\* the caller has appended an action to its list during the run of TLoop(1);
\* the run has ended after the four actions it was started with, the
\* detect's dict annotated with its first result
C29_Witness ==
    /\ wacts[1] = TLoop(1)
    /\ Len(callerActs) = 5
    /\ wpc[1] = "exiting"
    /\ IsNone(errIndex[1])
    /\ dets[1] = <<FALSE, TRUE>>
    /\ trace[1] = <<0, 1, 2, 0, 1, 2, 3>>
    /\ result = <<None, Some([found |-> FALSE]), None, None>>

\* ----------------------------------------------------------------- C30
\* the indices the conditional_jump at index i of tl can jump to
CondJumpTargets(tl, i) ==
    LET params == ActParams(tl[i + 1])
        map == IndexMap(tl)
    IN  {map[k] : k \in {Get(params, "true_target", ""),
                         Get(params, "false_target", "")} \cap DOMAIN map}

\* no conditional_jump of tl can jump to its own index or before it
ForwardJumpsOnly(tl) ==
    \A i \in 0 .. Len(tl) - 1 :
        ActType(tl[i + 1]) = "conditional_jump" =>
            \A k \in CondJumpTargets(tl, i) : k > i

\* C30: if the pause flag is not left set for ever, a run of a timeline whose
\* conditional_jumps only jump forward leaves its loop and emits "Idle",
\* whether or not stop() is called; whereas the run of the scenario
\* timeline, whose conditional_jump jumps back, does not end as long as its
\* detections are not found, unless it is stopped or a handler raises.
C30_ForwardRunsTerminate ==
    /\ \A w \in Threads :
          (<>[]~pauseEv) =>
             ((Running(w) /\ ForwardJumpsOnly(wacts[w]))
                 ~> (wpc[w] = "exiting" /\ statusBar = "Idle"))
    /\ [](\A w \in Threads :
            (/\ Alive(w)
             /\ wacts[w] = TScenario
             /\ AllFalse(dets[w])
             /\ Undisturbed(w)) => ~RunOver(w))

\* the run of the loop_until timeline with max_iters 2 has ended by itself,
\* never stopped, its detections never found
C30_Witness ==
    /\ wacts[1] = TLoop(2)
    /\ ForwardJumpsOnly(wacts[1])
    /\ wpc[1] = "exiting"
    /\ statusBar = "Idle"
    /\ Undisturbed(1)
    /\ dets[1] = <<FALSE, FALSE, FALSE>>
    /\ ~stopEv

====
